---- MODULE Spec2Model ----
(***************************************************************************)
(* Model of extractor.py: a command-line program that checks its          *)
(* dependencies and file permissions, calls pdf2image.convert_from_path   *)
(* once and saves every returned page as page_<idx>.<fmt>.                *)
(*                                                                         *)
(* One behaviour is one invocation of the program followed by one more    *)
(* invocation with the same arguments in the same environment.            *)
(***************************************************************************)
EXTENDS Naturals, Sequences, FiniteSets

\* Largest number of pages convert_from_path returns in the model.
MaxPages == 3

VARIABLES
    args,       \* argparse namespace: fmt, poppler_path
    env,        \* what the operating system and the libraries answer
    outKind,    \* what output_dir names on disk: "absent", "dir" or "file"
    disk,       \* contents of the files page_<idx>.<ext> under output_dir
    disk0,      \* disk as it was when the current invocation started
    outKind0,   \* outKind as it was when the current invocation started
    pc,         \* position of the invocation in main()
    checks,     \* the precondition checks performed so far, with outcomes
    convertCalls, \* number of calls of convert_from_path
    pages,      \* list returned by convert_from_path
    idx,        \* next index of the enumerate() loop
    attempted,  \* out_file of every page.save call made
    saved,      \* out_file of every page.save call that returned
    log,        \* records written through logging
    failure,    \* why the process ended ("none" while running or on success)
    exitCode,   \* <<>> while the process runs, <<status>> once it has ended
    prev        \* summaries of the invocations already finished

vars == <<args, env, outKind, disk, disk0, outKind0, pc, checks, convertCalls, pages,
          idx, attempted, saved, log, failure, exitCode, prev>>

\* ----------------------------------------------------------------------
\* Strings are sequences of characters so that lower() and upper() are
\* computed, not assumed.

png  == <<"p", "n", "g">>
jpeg == <<"j", "p", "e", "g">>
JPEG == <<"J", "P", "E", "G">>
Jpeg == <<"J", "p", "e", "g">>
jpg  == <<"j", "p", "g">>

Formats == {png, jpeg, JPEG, Jpeg, jpg}

LowerChar(c) ==
    CASE c = "J" -> "j"
      [] c = "P" -> "p"
      [] c = "E" -> "e"
      [] c = "G" -> "g"
      [] c = "N" -> "n"
      [] OTHER   -> c

UpperChar(c) ==
    CASE c = "j" -> "J"
      [] c = "p" -> "P"
      [] c = "e" -> "E"
      [] c = "g" -> "G"
      [] c = "n" -> "N"
      [] OTHER   -> c

\* str.lower()
Lower(s) == [i \in 1..Len(s) |-> LowerChar(s[i])]

\* str.upper()
Upper(s) == [i \in 1..Len(s) |-> UpperChar(s[i])]

\* ----------------------------------------------------------------------
\* Arguments and environment

NoPath == "None"
PopplerDir == "poppler_dir"

\* --fmt and --poppler_path as parsed by argparse
Args == [fmt : Formats, poppler_path : {NoPath, PopplerDir}]

\* Outcomes of the calls into the operating system, pdf2image and Pillow.
\* They are fixed for a behaviour: both invocations see the same machine.
Envs ==
    { e \in [ pdf2imageInstalled : BOOLEAN,   \* import pdf2image succeeds
              pdftoppmInDir      : BOOLEAN,   \* isfile(join(poppler_path, "pdftoppm"))
              pdftoppmOnPath     : BOOLEAN,   \* shutil.which("pdftoppm") is not None
              pdfIsFile          : BOOLEAN,   \* os.path.isfile(pdf_file)
              pdfReadable        : BOOLEAN,   \* os.access(pdf_file, R_OK)
              canMakedirs        : BOOLEAN,   \* os.makedirs on an absent path succeeds
              dirWritable        : BOOLEAN,   \* os.access(output_dir, W_OK)
              convertRaises      : BOOLEAN,   \* convert_from_path raises
              nPages             : 0..MaxPages, \* pages it returns otherwise
              saveFailsAt        : 0..MaxPages, \* page whose save raises, 0: none
              failedSaveTruncates: BOOLEAN ]  \* a raising save leaves a partial file
      : /\ (~e.pdfIsFile => ~e.pdfReadable)
        /\ (e.convertRaises => e.nPages = 0)
        /\ e.saveFailsAt <= e.nPages
        /\ (e.saveFailsAt = 0 => ~e.failedSaveTruncates) }

\* ----------------------------------------------------------------------
\* Files under output_dir

\* (mutant) pages are numbered from 0
OutFileZeroBased(i, fmt) == [idx |-> i - 1, ext |-> fmt]

\* os.path.join(output_dir, f"page_{idx}.{fmt}")
OutFile(i, fmt) == [idx |-> i, ext |-> fmt]

Names == [idx : 0..(MaxPages + 1), ext : Formats]

Absent == [kind |-> "absent", page |-> 0, format |-> <<>>]
Stale == [kind |-> "stale", page |-> 0, format |-> <<>>]
Partial == [kind |-> "partial", page |-> 0, format |-> <<>>]

\* What page.save(out_file, format) leaves in out_file when it returns
Image(page, format) == [kind |-> "image", page |-> page, format |-> format]

EmptyDir == [n \in Names |-> Absent]

\* A directory holding files of an earlier conversion of a longer document
StaleDir(fmt) ==
    [n \in Names |-> IF n.ext = fmt /\ n.idx \in {1, MaxPages + 1}
                     THEN Stale ELSE Absent]

\* ----------------------------------------------------------------------
\* The checks and decisions of the program

\* (mutant) the binary counts as found when it is in either place
ToolchainFoundInEither(poppler_path) ==
    \/ (poppler_path # NoPath /\ env.pdftoppmInDir)
    \/ env.pdftoppmOnPath

\* check_dependencies, step 2: with --poppler_path only that directory is
\* looked at, without it only the system PATH
ToolchainFound(poppler_path) ==
    IF poppler_path # NoPath
    THEN env.pdftoppmInDir
    ELSE env.pdftoppmOnPath

Check(name, error) == [name |-> name, ok |-> error = "none", error |-> error]

\* (mutant) a missing pdf2image is logged but the process goes on
DependencyChecksNoExit(poppler_path) ==
    << Check("pdf2image",
             IF env.pdf2imageInstalled THEN "none" ELSE "pdf2image_not_installed"),
       Check("pdftoppm",
             IF ToolchainFound(poppler_path) THEN "none"
             ELSE IF poppler_path # NoPath THEN "pdftoppm_not_in_poppler_path"
             ELSE "pdftoppm_not_in_PATH") >>

\* check_dependencies: the checks it performs, in order; sys.exit(1) after
\* the first that fails
DependencyChecks(poppler_path) ==
    LET lib  == Check("pdf2image",
                      IF env.pdf2imageInstalled THEN "none"
                      ELSE "pdf2image_not_installed")
        tool == Check("pdftoppm",
                      IF ToolchainFound(poppler_path) THEN "none"
                      ELSE IF poppler_path # NoPath THEN "pdftoppm_not_in_poppler_path"
                      ELSE "pdftoppm_not_in_PATH")
    IN  IF ~lib.ok THEN <<lib>> ELSE <<lib, tool>>

\* (mutant) the os.access(pdf_file, R_OK) test is left out
PdfErrorNoAccessTest ==
    IF ~env.pdfIsFile THEN "pdf_missing" ELSE "none"

\* check_file_permissions, the PDF part
PdfError ==
    IF ~env.pdfIsFile THEN "pdf_missing"
    ELSE IF ~env.pdfReadable THEN "pdf_unreadable"
    ELSE "none"

\* (mutant) the os.access(output_dir, W_OK) test is left out
OutputDirErrorNoAccessTest(kind) ==
    IF kind # "dir" /\ ~(kind = "absent" /\ env.canMakedirs)
    THEN "makedirs_failed"
    ELSE "none"

\* (mutant) os.makedirs(output_dir) called without the isdir guard and
\* without exist_ok
OutputDirErrorNoGuard(kind) ==
    IF ~(kind = "absent" /\ env.canMakedirs) THEN "makedirs_failed"
    ELSE IF ~env.dirWritable THEN "output_dir_not_writable"
    ELSE "none"

\* check_file_permissions, the output directory part: os.makedirs when
\* output_dir is not a directory (it raises OSError when the path cannot be
\* created or names a file), then os.access(output_dir, W_OK)
OutputDirError(kind) ==
    IF kind # "dir" /\ ~(kind = "absent" /\ env.canMakedirs)
    THEN "makedirs_failed"
    ELSE IF ~env.dirWritable THEN "output_dir_not_writable"
    ELSE "none"

\* what output_dir names after check_file_permissions has looked at it
AfterMakedirs(kind) ==
    IF kind = "absent" /\ env.canMakedirs THEN "dir" ELSE kind

\* check_file_permissions: the checks it performs, in order
FilePermissionChecks(kind) ==
    LET pdf == Check("pdf_file", PdfError)
        dir == Check("output_dir", OutputDirError(kind))
    IN  IF ~pdf.ok THEN <<pdf>> ELSE <<pdf, dir>>

\* (mutant) the comparison is made without lower()
IsRejectedCaseSensitive(fmt) == fmt = jpeg

\* the test fmt.lower() == 'jpeg' of the save loop
IsRejected(fmt) == Lower(fmt) = jpeg

\* (mutant) a rejected format ends the process through sys.exit()
ExitStatusRejectedIsZero(why) ==
    IF why \in {"none", "jpeg_rejected"} THEN 0 ELSE 1

\* Exit status of the process: 0 when main() returns, 1 after sys.exit(1)
\* and after an exception nobody catches
ExitStatus(why) == IF why = "none" THEN 0 ELSE 1

Record(level, msg, page) == [level |-> level, msg |-> msg, page |-> page]

\* ----------------------------------------------------------------------
\* The process

Init ==
    /\ args \in Args
    /\ env \in Envs
    \* without --poppler_path there is no directory to look into
    /\ (args.poppler_path = NoPath => ~env.pdftoppmInDir)
    /\ outKind \in {"absent", "dir", "file"}
    /\ disk \in (IF outKind = "dir" THEN {EmptyDir, StaleDir(args.fmt)}
                 ELSE {EmptyDir})
    /\ disk0 = disk
    /\ outKind0 = outKind
    /\ pc = "check_dependencies"
    /\ checks = <<>>
    /\ convertCalls = 0
    /\ pages = <<>>
    /\ idx = 1
    /\ attempted = <<>>
    /\ saved = <<>>
    /\ log = <<>>
    /\ failure = "none"
    /\ exitCode = <<>>
    /\ prev = <<>>

\* logging.error(...); sys.exit(1)
Die(why) ==
    /\ log' = Append(log, Record("ERROR", why, 0))
    /\ failure' = why
    /\ exitCode' = <<ExitStatus(why)>>
    /\ pc' = "exited"

\* an exception nobody catches: traceback on stderr, nothing through logging
Raise(why) ==
    /\ failure' = why
    /\ exitCode' = <<ExitStatus(why)>>
    /\ pc' = "exited"

\* main: check_dependencies(args.poppler_path)
CheckDependencies ==
    /\ pc = "check_dependencies"
    /\ LET done == DependencyChecks(args.poppler_path)
           bad  == { i \in 1..Len(done) : ~done[i].ok }
       IN  /\ checks' = checks \o done
           /\ IF bad # {}
              THEN Die(done[CHOOSE i \in bad : \A j \in bad : i <= j].error)
              ELSE /\ pc' = "check_file_permissions"
                   /\ UNCHANGED <<log, failure, exitCode>>
    /\ UNCHANGED <<args, env, outKind, disk, disk0, outKind0, convertCalls, pages, idx,
                   attempted, saved, prev>>

\* main: check_file_permissions(args.pdf_file, args.output_dir)
CheckFilePermissions ==
    /\ pc = "check_file_permissions"
    /\ LET done == FilePermissionChecks(outKind)
           bad  == { i \in 1..Len(done) : ~done[i].ok }
       IN  /\ checks' = checks \o done
           \* os.makedirs runs only when the PDF part has passed
           /\ outKind' = IF Len(done) = 2 THEN AfterMakedirs(outKind) ELSE outKind
           /\ IF bad # {}
              THEN Die(done[CHOOSE i \in bad : \A j \in bad : i <= j].error)
              ELSE /\ pc' = "convert_pdf_to_images"
                   /\ UNCHANGED <<log, failure, exitCode>>
    /\ UNCHANGED <<args, env, disk, disk0, outKind0, convertCalls, pages, idx,
                   attempted, saved, prev>>

\* main prints the arguments and calls convert_pdf_to_images, which logs
\* and calls convert_from_path(pdf_file, dpi, fmt, poppler_path)
ConvertFromPath ==
    /\ pc = "convert_pdf_to_images"
    /\ log' = Append(log, Record("INFO", "converting", 0))
    /\ convertCalls' = convertCalls + 1
    /\ IF env.convertRaises
       THEN /\ Raise("convert_from_path_raised")
            /\ UNCHANGED <<pages, idx>>
       ELSE /\ pages' = [i \in 1..env.nPages |-> i]
            /\ idx' = 1
            /\ pc' = "save_loop"
            /\ UNCHANGED <<failure, exitCode>>
    /\ UNCHANGED <<args, env, outKind, disk, disk0, outKind0, checks, attempted, saved,
                   prev>>

\* (mutant) an exception of page.save is swallowed and the loop goes on
SavePageKeepsGoing ==
    /\ pc = "save_loop"
    /\ idx <= Len(pages)
    /\ LET page     == pages[idx]
           out_file == OutFile(idx, args.fmt)
       IN  IF IsRejected(args.fmt)
           THEN /\ Die("jpeg_rejected")
                /\ UNCHANGED <<disk, idx, attempted, saved>>
           ELSE /\ attempted' = Append(attempted, out_file)
                /\ idx' = idx + 1
                /\ UNCHANGED <<pc, failure, exitCode>>
                /\ IF env.saveFailsAt = page
                   THEN /\ disk' = IF env.failedSaveTruncates
                                   THEN [disk EXCEPT ![out_file] = Partial]
                                   ELSE disk
                        /\ UNCHANGED <<saved, log>>
                   ELSE /\ disk' = [disk EXCEPT
                                      ![out_file] = Image(page, Upper(args.fmt))]
                        /\ saved' = Append(saved, out_file)
                        /\ log' = Append(log, Record("INFO", "saved", idx))
    /\ UNCHANGED <<args, env, outKind, disk0, outKind0, checks, convertCalls, pages,
                   prev>>

\* one iteration of: for idx, page in enumerate(pages, start=1)
SavePage ==
    /\ pc = "save_loop"
    /\ idx <= Len(pages)
    /\ LET page     == pages[idx]
           out_file == OutFile(idx, args.fmt)
       IN  IF IsRejected(args.fmt)
           THEN /\ Die("jpeg_rejected")
                /\ UNCHANGED <<disk, idx, attempted, saved>>
           ELSE /\ attempted' = Append(attempted, out_file)
                /\ IF env.saveFailsAt = page
                   THEN \* page.save raises
                        /\ disk' = IF env.failedSaveTruncates
                                   THEN [disk EXCEPT ![out_file] = Partial]
                                   ELSE disk
                        /\ Raise("save_raised")
                        /\ UNCHANGED <<idx, saved, log>>
                   ELSE /\ disk' = [disk EXCEPT
                                      ![out_file] = Image(page, Upper(args.fmt))]
                        /\ saved' = Append(saved, out_file)
                        /\ log' = Append(log, Record("INFO", "saved", idx))
                        /\ idx' = idx + 1
                        /\ UNCHANGED <<pc, failure, exitCode>>
    /\ UNCHANGED <<args, env, outKind, disk0, outKind0, checks, convertCalls, pages,
                   prev>>

\* the loop is over: "Conversion complete.", main returns
Complete ==
    /\ pc = "save_loop"
    /\ idx > Len(pages)
    /\ log' = Append(log, Record("INFO", "complete", 0))
    /\ exitCode' = <<ExitStatus("none")>>
    /\ pc' = "exited"
    /\ UNCHANGED <<args, env, outKind, disk, disk0, outKind0, checks, convertCalls,
                   pages, idx, attempted, saved, failure, prev>>

\* the program is started once more with the same command line
RunAgain ==
    /\ pc = "exited"
    /\ prev = <<>>
    /\ prev' = << [exitCode |-> exitCode, failure |-> failure, disk |-> disk,
                   outKind |-> outKind, saved |-> saved] >>
    /\ disk0' = disk
    /\ outKind0' = outKind
    /\ pc' = "check_dependencies"
    /\ checks' = <<>>
    /\ convertCalls' = 0
    /\ pages' = <<>>
    /\ idx' = 1
    /\ attempted' = <<>>
    /\ saved' = <<>>
    /\ log' = <<>>
    /\ failure' = "none"
    /\ exitCode' = <<>>
    /\ UNCHANGED <<args, env, outKind, disk>>

Next ==
    \/ CheckDependencies
    \/ CheckFilePermissions
    \/ ConvertFromPath
    \/ SavePage
    \/ Complete
    \/ RunAgain

Spec == Init /\ [][Next]_vars

TypeOK ==
    /\ args \in Args
    /\ env \in Envs
    /\ outKind \in {"absent", "dir", "file"}
    /\ pc \in {"check_dependencies", "check_file_permissions",
               "convert_pdf_to_images", "save_loop", "exited"}
    /\ exitCode \in {<<>>, <<0>>, <<1>>}
    /\ Len(prev) <= 1

\* ----------------------------------------------------------------------
\* Vocabulary of the properties

Exited == pc = "exited"

\* the four preconditions, in the order the specification gives them
CheckOrder == <<"pdf2image", "pdftoppm", "pdf_file", "output_dir">>

AllChecksPassed ==
    /\ Len(checks) = Len(CheckOrder)
    /\ \A i \in 1..Len(checks) : checks[i].ok

\* the error kinds of the specification, as the messages the program logs
DependencyMissing == {"pdf2image_not_installed"}
ToolchainNotFound == {"pdftoppm_not_in_poppler_path", "pdftoppm_not_in_PATH"}
SourceUnreadable == {"pdf_missing", "pdf_unreadable"}
DestinationUnwritable == {"makedirs_failed", "output_dir_not_writable"}
UnsupportedFormat == {"jpeg_rejected"}

KindOf(check) ==
    CASE check = "pdf2image"  -> DependencyMissing
      [] check = "pdftoppm"   -> ToolchainNotFound
      [] check = "pdf_file"   -> SourceUnreadable
      [] check = "output_dir" -> DestinationUnwritable

\* page_<n>.<fmt> of the current command line
PageFile(n) == [idx |-> n, ext |-> args.fmt]

Logged(level, msg) == \E i \in 1..Len(log) : log[i].level = level /\ log[i].msg = msg

\* the names whose contents the current invocation has changed
Touched == { n \in Names : disk[n] # disk0[n] }

\* ----------------------------------------------------------------------
\* C1: when all four preconditions passed, the format is not the rejected
\* one, convert_from_path returned N pages and no save raised, the process
\* ends with status 0 and the files it wrote are exactly page_1.<fmt> ..
\* page_N.<fmt>, each holding its own page, and no other file was touched.
C1_ExactlyNFiles ==
    ( /\ Exited
      /\ AllChecksPassed
      /\ Lower(args.fmt) # jpeg
      /\ ~env.convertRaises
      /\ env.saveFailsAt = 0 )
    => /\ exitCode = <<0>>
       /\ Len(saved) = env.nPages
       /\ \A i \in 1..env.nPages :
             /\ saved[i] = PageFile(i)
             /\ disk[PageFile(i)].kind = "image"
             /\ disk[PageFile(i)].page = i
       /\ Touched \subseteq { PageFile(i) : i \in 1..env.nPages }
       /\ attempted = saved

C1_Witness ==
    /\ Exited
    /\ AllChecksPassed
    /\ args.fmt = png
    /\ env.saveFailsAt = 0
    /\ env.nPages = MaxPages
    /\ Len(saved) = MaxPages
    /\ disk0 = StaleDir(png)

\* C2: with format "jpeg" and all preconditions passed, whatever number of
\* pages convert_from_path returns, the process ends with UnsupportedFormat
\* (status 1, error logged) and writes no page file.
C2_JpegAlwaysRejected ==
    ( /\ Exited
      /\ AllChecksPassed
      /\ args.fmt = jpeg
      /\ ~env.convertRaises )
    => /\ failure \in UnsupportedFormat
       /\ exitCode = <<1>>
       /\ Logged("ERROR", "jpeg_rejected")
       /\ attempted = <<>>
       /\ Touched = {}

\* C3: the preconditions are checked in the order pdf2image, pdftoppm,
\* pdf_file, output_dir; a failed check is the last one performed and ends
\* the process with status 1 and the error kind of that check; and
\* convert_from_path is called only after all four have passed.
C3_ChecksInOrder ==
    /\ Len(checks) <= Len(CheckOrder)
    /\ \A i \in 1..Len(checks) :
          /\ checks[i].name = CheckOrder[i]
          /\ (i < Len(checks) => checks[i].ok)
          /\ ~checks[i].ok =>
               /\ Exited
               /\ exitCode = <<1>>
               /\ failure = checks[i].error
               /\ failure \in KindOf(CheckOrder[i])
               /\ log = <<Record("ERROR", failure, 0)>>
               /\ convertCalls = 0
    /\ (Len(checks) >= 1 => (checks[1].ok <=> env.pdf2imageInstalled))
    /\ (Len(checks) >= 3 => (checks[3].ok <=> (env.pdfIsFile /\ env.pdfReadable)))
    /\ (convertCalls > 0 => AllChecksPassed)
    /\ (pc \in {"convert_pdf_to_images", "save_loop"} => AllChecksPassed)

C3_Witness ==
    /\ Len(checks) = 3
    /\ ~env.pdfIsFile
    /\ failure = "pdf_missing"
    /\ ~env.dirWritable

OutputDirUnusable ==
    CASE outKind = "file"   -> TRUE
      [] outKind = "absent" -> ~env.canMakedirs \/ ~env.dirWritable
      [] outKind = "dir"    -> ~env.dirWritable

\* C5: when output_dir is unusable, convert_from_path is never called and
\* no file is created or changed, a process that has ended has status 1,
\* and a run that gets to the output directory check (the three earlier
\* checks having passed) ends there with DestinationUnwritable.
C5_UnusableOutputDir ==
    OutputDirUnusable
    => /\ convertCalls = 0
       /\ pc \notin {"convert_pdf_to_images", "save_loop"}
       /\ attempted = <<>>
       /\ Touched = {}
       /\ (Exited => exitCode = <<1>>)
       /\ Len(checks) = Len(CheckOrder) =>
             /\ Exited
             /\ failure \in DestinationUnwritable
             /\ Logged("ERROR", failure)

C5_Witness ==
    /\ outKind = "file"
    /\ Len(checks) = Len(CheckOrder)
    /\ failure = "makedirs_failed"
    /\ exitCode = <<1>>

\* C6: a page file is written only after output_dir was checked to be a
\* writable directory (created if it was absent), and convert_from_path is
\* called only after pdf_file was checked to exist and be readable.
C6_CheckedBeforeUse ==
    /\ (attempted # <<>> \/ saved # <<>> \/ Touched # {})
       => /\ Len(checks) = Len(CheckOrder)
          /\ checks[Len(checks)].name = "output_dir"
          /\ checks[Len(checks)].ok
          /\ outKind = "dir"
          /\ env.dirWritable
          /\ (outKind0 # "dir" => outKind0 = "absent" /\ env.canMakedirs)
    /\ convertCalls > 0
       => /\ Len(checks) >= 3
          /\ checks[3].name = "pdf_file"
          /\ checks[3].ok
          /\ env.pdfIsFile
          /\ env.pdfReadable

C6_Witness ==
    /\ saved # <<>>
    /\ outKind0 = "absent"
    /\ outKind = "dir"
    /\ convertCalls > 0

\* C7: the second invocation with the same command line ends with the
\* same exit status as the first and leaves output_dir as the first left
\* it: the same files with the same contents, each page_<N>.<fmt> written
\* over, none added.
C7_SecondRunChangesNothing ==
    (Len(prev) = 1 /\ Exited)
    => /\ exitCode = prev[1].exitCode
       /\ failure = prev[1].failure
       /\ outKind = prev[1].outKind
       /\ disk = prev[1].disk
       /\ saved = prev[1].saved

C7_Witness ==
    /\ Len(prev) = 1
    /\ Exited
    /\ Len(saved) = MaxPages
    /\ exitCode = <<0>>
    /\ prev[1].exitCode = <<0>>

\* C8: the files written are always page_1 .. page_k in document order;
\* when the save of page k+1 raises, page_1 .. page_k stay as written, no
\* later page is written, "Conversion complete." is not logged and the
\* process ends with status 1.
C8_PrefixAndStopAtFailure ==
    /\ \A i \in 1..Len(saved) :
          /\ saved[i] = PageFile(i)
          /\ disk[PageFile(i)].kind = "image"
          /\ disk[PageFile(i)].page = pages[i]
          /\ pages[i] = i
    /\ (pc = "save_loop" => Len(saved) = idx - 1 /\ attempted = saved)
    /\ Len(attempted) > Len(saved)
       => /\ failure = "save_raised"
          /\ env.saveFailsAt = Len(saved) + 1
          /\ attempted = Append(saved, PageFile(Len(saved) + 1))
          /\ Exited
          /\ exitCode = <<1>>
          /\ ~Logged("INFO", "complete")
          /\ \A n \in Touched : n.idx <= Len(saved) + 1
    /\ failure = "save_raised" => Len(attempted) > Len(saved)

C8_Witness ==
    /\ failure = "save_raised"
    /\ Len(saved) >= 1
    /\ env.nPages > env.saveFailsAt
    /\ disk0 = StaleDir(args.fmt)

\* C9: the process ends with status 0 exactly when it logged "Conversion
\* complete." after writing every page convert_from_path returned; a
\* failed precondition, a rejected format and an exception of
\* convert_from_path or of page.save all end it with status 1; there is no
\* other status.
C9_ExitStatus ==
    /\ (~Exited <=> exitCode = <<>>)
    /\ Exited
       => /\ exitCode \in {<<0>>, <<1>>}
          /\ exitCode = <<0>> <=>
                /\ failure = "none"
                /\ AllChecksPassed
                /\ convertCalls = 1
                /\ ~env.convertRaises
                /\ Len(saved) = Len(pages)
                /\ Len(pages) = env.nPages
                /\ Len(log) >= 1
                /\ log[Len(log)] = Record("INFO", "complete", 0)
          /\ failure # "none" => exitCode = <<1>>
          /\ (\E i \in 1..Len(checks) : ~checks[i].ok) => exitCode = <<1>>
          /\ Logged("ERROR", "jpeg_rejected") => exitCode = <<1>>
          /\ (convertCalls > 0 /\ env.convertRaises) => exitCode = <<1>>
          /\ Len(attempted) > Len(saved) => exitCode = <<1>>

C9_Witness ==
    /\ Exited
    /\ exitCode = <<0>>
    /\ Len(pages) = MaxPages
    /\ Len(prev) = 0

\* C10: with a format that is "jpeg" in any letter case page.save is never
\* called, and the rejection is reported at the first page of the loop,
\* after the one call of convert_from_path has returned.
C10_JpegRejectedAfterConversion ==
    /\ Lower(args.fmt) = jpeg
       => /\ attempted = <<>>
          /\ saved = <<>>
          /\ Touched = {}
    /\ (failure \in UnsupportedFormat \/ Logged("ERROR", "jpeg_rejected"))
       => /\ Lower(args.fmt) = jpeg
          /\ convertCalls = 1
          /\ ~env.convertRaises
          /\ Len(pages) = env.nPages
          /\ Len(pages) >= 1
          /\ idx = 1
          /\ log = <<Record("INFO", "converting", 0),
                     Record("ERROR", "jpeg_rejected", 0)>>

C10_Witness ==
    /\ args.fmt = JPEG
    /\ failure = "jpeg_rejected"
    /\ Len(pages) = MaxPages

====
